---- MODULE Spec2Model ----
(***************************************************************************)
(* flask-filealchemy: loading database tables from a tree of YAML files.   *)
(*                                                                         *)
(* The module models                                                       *)
(*   - loaders.loader_for and the two validate() methods (strategy         *)
(*     selection over the content of <data_dir>/<table.name>),             *)
(*   - YAMLSingleFileLoader.extract_records and                            *)
(*     YAMLDirectoryLoader.extract_records as lazy generators, advanced    *)
(*     one step at a time by the consumer loop of load_tables,             *)
(*   - FileAlchemy.load_tables inside the make_session context manager,    *)
(*     with the calls it makes on the session recorded in a log.           *)
(*                                                                         *)
(* Names of files are sequences of characters so that str.endswith and     *)
(* Path.stem are computed, not assumed.  YAML values carry their Python    *)
(* type so that isinstance() tests and json.dumps are computed.            *)
(***************************************************************************)
EXTENDS Naturals, Sequences, FiniteSets, TLC

VARIABLES
    cfg,        \* app.config as read by FileAlchemy.__init__ (constant in a run)
    fs,         \* table name -> content of <data_dir>/<table name>
    pc,         \* position of load_tables / of the running generator
    ti,         \* index into db.metadata.sorted_tables
    gen,        \* local variables of the running extract_records generator
    session,    \* calls made on db.session, in order
    yielded,    \* records yielded by the loaders (each was session.add-ed)
    chosen,     \* table name -> what loader_for returned for it
    processed,  \* table name -> "pending" | "skipped" | "flushed"
    error       \* exception that left load_tables, "none" while there is none

vars == <<cfg, fs, pc, ti, gen, session, yielded, chosen, processed, error>>

(***************************************************************************)
(* Bounds of the model.                                                    *)
(***************************************************************************)
\* most files in one table directory of a load_tables run
MaxFiles == 2
\* most entries in the table directory of a strategy-selection run
MaxEntries == 2

(***************************************************************************)
(* Sequence helpers.                                                       *)
(***************************************************************************)
Range(s) == {s[i] : i \in 1..Len(s)}

Last(s) == s[Len(s)]

RECURSIVE Concat(_)
\* ''.join(chars)
Concat(chars) ==
    IF chars = <<>> THEN "" ELSE Head(chars) \o Concat(Tail(chars))

RECURSIVE JoinWith(_, _)
\* sep.join(strs)
JoinWith(strs, sep) ==
    IF strs = <<>> THEN ""
    ELSE IF Len(strs) = 1 THEN strs[1]
    ELSE strs[1] \o sep \o JoinWith(Tail(strs), sep)

(***************************************************************************)
(* YAML values.  kind is the Python type of the parsed value; items holds  *)
(* a scalar's text, a list's scalar elements or a dict's key/value pairs;  *)
(* rows holds the mapping elements of a list of mappings.                  *)
(***************************************************************************)
IntV(s) == [kind |-> "int", items |-> <<s>>, rows |-> <<>>]
StrV(s) == [kind |-> "str", items |-> <<s>>, rows |-> <<>>]
ListV(elems) == [kind |-> "list", items |-> elems, rows |-> <<>>]
DictV(pairs) == [kind |-> "dict", items |-> pairs, rows |-> <<>>]
RowsV(rows) == [kind |-> "list", items |-> <<>>, rows |-> rows]
NoneV == [kind |-> "none", items |-> <<>>, rows |-> <<>>]

Field(k, v) == [key |-> k, val |-> v]

\* dict operations on a mapping held as a set of fields with distinct keys
Keys(kw) == {f.key : f \in kw}
Get(kw, k) == (CHOOSE f \in kw : f.key = k).val
Put(kw, k, v) == {f \in kw : f.key # k} \cup {Field(k, v)}
\* dict.get(k): None when the key is absent
GetOrNone(kw, k) == IF k \in Keys(kw) THEN Get(kw, k) ELSE NoneV

RECURSIVE Update(_, _)
\* dict.update(other), other given in its iteration order
Update(kw, other) ==
    IF other = <<>> THEN kw
    ELSE Update(Put(kw, Head(other).key, Head(other).val), Tail(other))

\* a mapping given as a sequence of fields (document order), as a dict
AsDict(fields) == Update({}, fields)

IsCompound(v) == v.kind = "list" \/ v.kind = "dict"

RECURSIVE Indent(_)
Indent(n) == IF n = 0 THEN "" ELSE "    " \o Indent(n - 1)

RECURSIVE Dumps(_, _)
RECURSIVE DumpsRow(_, _)
RECURSIVE DumpPairs(_)
DumpPairs(pairs) ==
    IF Len(pairs) < 2 THEN <<>>
    ELSE <<"\"" \o pairs[1] \o "\": " \o pairs[2]>> \o DumpPairs(Tail(Tail(pairs)))

Bracket(open, elems, close, lvl) ==
    IF elems = <<>> THEN open \o close
    ELSE open \o "\n"
         \o JoinWith([i \in 1..Len(elems) |-> Indent(lvl + 1) \o elems[i]], ",\n")
         \o "\n" \o Indent(lvl) \o close

DumpsRow(fields, lvl) ==
    Bracket("{",
            [i \in 1..Len(fields) |->
                "\"" \o fields[i].key \o "\": " \o Dumps(fields[i].val, lvl + 1)],
            "}", lvl)

Dumps(v, lvl) ==
    CASE v.kind = "int" -> v.items[1]
      [] v.kind = "str" -> "\"" \o v.items[1] \o "\""
      [] v.kind = "none" -> "null"
      [] v.kind = "dict" -> Bracket("{", DumpPairs(v.items), "}", lvl)
      [] v.kind = "list" ->
            Bracket("[",
                    v.items \o [i \in 1..Len(v.rows) |-> DumpsRow(v.rows[i], lvl + 1)],
                    "]", lvl)

\* json.dumps(value, indent=4): the result is a str
JsonDumps(v) == StrV(Dumps(v, 0))

(***************************************************************************)
(* The schema (db.metadata): two tables, comments referencing posts.       *)
(***************************************************************************)
\* db.metadata.sorted_tables: parents before children
sorted_tables == <<"posts", "comments">>

Tables == Range(sorted_tables)

\* table.columns.keys()
Columns(t) ==
    CASE t = "posts" -> {"id", "title"}
      [] t = "comments" -> {"body", "post_id"}

\* table.foreign_key_constraints: each constraint is zip(column_keys, elements)
ForeignKeys(t) ==
    CASE t = "posts" -> <<>>
      [] t = "comments" ->
            << <<[local |-> "post_id", reftable |-> "posts", refcol |-> "id"]>> >>

(***************************************************************************)
(* File names, documents and directory contents.                           *)
(***************************************************************************)
AllYml == <<"_", "a", "l", "l", ".", "y", "m", "l">>
P1Yml == <<"p", "1", ".", "y", "m", "l">>
P2Yaml == <<"p", "2", ".", "Y", "A", "M", "L">>
NotesTxt == <<"n", ".", "t", "x", "t">>
MixedCase == <<"a", ".", "Y", "m", "l">>
NoDot == <<"y", "m", "l">>
AllYaml == <<"_", "a", "l", "l", ".", "y", "a", "m", "l">>
DotYml == <<".", "y", "m", "l">>

\* YAMLDirectoryLoader.extensions
extensions ==
    << <<".", "y", "m", "l">>, <<".", "y", "a", "m", "l">>,
       <<".", "Y", "M", "L">>, <<".", "Y", "A", "M", "L">> >>

\* str.endswith
EndsWith(name, suffix) ==
    /\ Len(suffix) <= Len(name)
    /\ SubSeq(name, Len(name) - Len(suffix) + 1, Len(name)) = suffix

\* str.rfind('.') (0 when there is no dot; positions count from 1)
RFindDot(name) ==
    LET dots == {i \in 1..Len(name) : name[i] = "."}
    IN IF dots = {} THEN 0 ELSE CHOOSE i \in dots : \A j \in dots : j <= i

\* PurePath.stem: the name without its last suffix; a leading or a trailing
\* dot starts no suffix
Stem(name) ==
    LET i == RFindDot(name)
    IN IF 1 < i /\ i < Len(name) THEN SubSeq(name, 1, i - 1) ELSE name

\* what the file holds, as YAML(typ='safe').load sees it
MappingDoc(fields) == [shape |-> "mapping", fields |-> fields, rows |-> <<>>]
SequenceDoc(rows) == [shape |-> "sequence", fields |-> <<>>, rows |-> rows]
ScalarDoc == [shape |-> "scalar", fields |-> <<>>, rows |-> <<>>]
UnreadableDoc == [shape |-> "unreadable", fields |-> <<>>, rows |-> <<>>]

Entry(dir, name, isFile, doc) ==
    [dir |-> dir, name |-> name, isFile |-> isFile, doc |-> doc]

NoEntry == Entry(<<>>, <<>>, FALSE, ScalarDoc)

MissingDir == [exists |-> FALSE, entries |-> {}]
Dir(entries) == [exists |-> TRUE, entries |-> entries]

\* the path of an entry below the table directory
PathOf(e) == <<e.dir, e.name>>

RECURSIVE SetsUpTo(_, _)
\* the sets of at most n entries of universe with pairwise distinct paths
SetsUpTo(universe, n) ==
    IF n = 0 THEN {{}}
    ELSE LET smaller == SetsUpTo(universe, n - 1)
         IN smaller \cup
            UNION {{S \cup {e} :
                        e \in {x \in universe : \A y \in S : PathOf(y) # PathOf(x)}} :
                   S \in smaller}

\* the one subdirectory of the model: its name as a path component and as a
\* sequence of characters
SubDir == "sub"
SubDirName == <<"s", "u", "b">>

\* a subdirectory is itself an entry of the recursive glob
WithSubdirs(files) ==
    files \cup {Entry(<<>>, SubDirName, FALSE, ScalarDoc) : f \in {x \in files : x.dir # <<>>}}

(***************************************************************************)
(* loaders.py: validation and strategy selection.                          *)
(***************************************************************************)
\* Path.glob('**/*') below the table directory: nothing when it is missing
Glob(d) == IF d.exists THEN d.entries ELSE {}

\* YAMLSingleFileLoader.validate: TRUE when InvalidLoaderError is not raised
SingleValidate(d) ==
    \E e \in Glob(d) : e.dir = <<>> /\ e.name = AllYml /\ e.isFile

\* faulty variant of DirectoryValidate: glob('*') instead of glob('**/*'), so
\* only the files directly under the table directory are examined
DirectoryValidateTopOnly(d) ==
    \A e \in Glob(d) :
        (e.isFile /\ e.dir = <<>>)
            => \E i \in 1..Len(extensions) : EndsWith(e.name, extensions[i])

\* faulty variant of DirectoryValidate: a missing table directory is rejected
DirectoryValidateExisting(d) ==
    /\ d.exists
    /\ \A e \in Glob(d) :
        e.isFile => \E i \in 1..Len(extensions) : EndsWith(e.name, extensions[i])

\* YAMLDirectoryLoader.validate: TRUE when InvalidLoaderError is not raised
DirectoryValidate(d) ==
    \A e \in Glob(d) :
        e.isFile => \E i \in 1..Len(extensions) : EndsWith(e.name, extensions[i])

\* loader_for: the first class whose constructor does not raise, else None
loader_for(d) ==
    IF SingleValidate(d) THEN "single"
    ELSE IF DirectoryValidate(d) THEN "directory"
    ELSE "none"

(***************************************************************************)
(* common.py                                                               *)
(***************************************************************************)
\* parse_yaml_file: "ok" when the parsed values are returned, else the
\* exception raised (IOError and ValueError both become LoadError)
parse_yaml_file(doc) ==
    CASE doc.shape = "unreadable" -> "LoadError"
      [] doc.shape = "scalar" -> "LoadError"
      [] doc.shape = "sequence" -> "ok"
      [] doc.shape = "mapping" -> "ok"

(***************************************************************************)
(* Configuration (FileAlchemy.__init__).                                   *)
(***************************************************************************)
Rule(col, rule) == [col |-> col, rule |-> rule]

\* FileAlchemy.model_for: (model, mapping), (None, None) without a model
model_for(t) == cfg.models[t]

\* model_map as passed to loader_for: self.models if map_nested else {}
ModelMap == IF cfg.map_nested THEN {t \in Tables : cfg.models[t].has} ELSE {}

\* model(**kwargs): the declarative constructor rejects a keyword that is no
\* attribute of the model; a model with its own __init__(**kw) accepts any
Construct(t, kw) ==
    IF cfg.strict /\ ~(Keys(kw) \subseteq Columns(t)) THEN "TypeError" ELSE "ok"

(***************************************************************************)
(* loaders.py: record extraction.                                          *)
(***************************************************************************)
Record(t, kw, loader, e, role) ==
    [table |-> t, kw |-> kw, loader |-> loader, path |-> PathOf(e), role |-> role]

\* entry.parent.name
ParentName(t, e) == IF e.dir = <<>> THEN t ELSE Last(e.dir)

RECURSIVE ApplyColumnMap(_, _, _, _)
\* YAMLDirectoryLoader.extract_records, the loop over column_map.items()
ApplyColumnMap(mapping, t, e, kw) ==
    IF mapping = <<>> THEN [err |-> "ok", kw |-> kw]
    ELSE LET m == Head(mapping)
         IN IF m.rule = "FILE_NAME"
            THEN ApplyColumnMap(Tail(mapping), t, e,
                                Put(kw, m.col, StrV(Concat(Stem(e.name)))))
            ELSE IF m.rule = "FOLDER_NAME"
            THEN ApplyColumnMap(Tail(mapping), t, e,
                                Put(kw, m.col, StrV(ParentName(t, e))))
            ELSE [err |-> "ValueError", kw |-> kw]

\* faulty variant of AssignColumn: a value set by a mapping rule is kept
AssignColumnKeepDerived(kw, k, v) ==
    IF k \in Keys(kw) THEN kw
    ELSE Put(kw, k, IF IsCompound(v) THEN JsonDumps(v) ELSE v)

\* the assignment of a document value to a column of the table
AssignColumn(kw, k, v) == Put(kw, k, IF IsCompound(v) THEN JsonDumps(v) ELSE v)

RECURSIVE ForeignPairs(_, _, _)
\* one constraint: the pairs of zip(const.column_keys, const.elements)
ForeignPairs(pairs, t, kw) ==
    IF pairs = <<>> THEN [err |-> "ok", fk |-> <<>>]
    ELSE LET p == Head(pairs)
             rest == ForeignPairs(Tail(pairs), t, kw)
         IN IF p.reftable # t THEN rest
            ELSE IF p.refcol \notin Keys(kw) THEN [err |-> "KeyError", fk |-> <<>>]
            ELSE IF rest.err # "ok" THEN rest
            ELSE [err |-> "ok", fk |-> <<Field(p.local, Get(kw, p.refcol))>> \o rest.fk]

RECURSIVE ForeignKwargs(_, _, _)
\* foreign_kwargs for the constraints of the sub table that reference table t
ForeignKwargs(consts, t, kw) ==
    IF consts = <<>> THEN [err |-> "ok", fk |-> <<>>]
    ELSE LET first == ForeignPairs(Head(consts), t, kw)
             rest == ForeignKwargs(Tail(consts), t, kw)
         IN IF first.err # "ok" THEN first
            ELSE IF rest.err # "ok" THEN rest
            ELSE [err |-> "ok", fk |-> first.fk \o rest.fk]

\* faulty variant of SingleKwargs: only the columns the element mentions
SingleKwargsPresent(t, row) ==
    {Field(c, Get(AsDict(row), c)) : c \in Columns(t) \cap Keys(AsDict(row))}

\* YAMLSingleFileLoader.extract_records: kwargs of one element of _all.yml
SingleKwargs(t, row) == {Field(c, GetOrNone(AsDict(row), c)) : c \in Columns(t)}

\* the _all.yml file of a directory the single-file loader validated
AllFile(d) == CHOOSE e \in Glob(d) : e.dir = <<>> /\ e.name = AllYml /\ e.isFile

(***************************************************************************)
(* filealchemy.py: the session context manager.                            *)
(***************************************************************************)
\* faulty variant of SessionExit: commit in every case the except clause
\* does not handle
SessionExitCommitUnhandled(err) ==
    IF err = "LoadError" THEN <<"rollback", "close">> ELSE <<"commit", "close">>

\* make_session: the calls on the session when the with-block is left with
\* exception err ("none": left normally)
SessionExit(err) ==
    IF err = "none" THEN <<"commit", "close">>
    ELSE IF err = "LoadError" THEN <<"rollback", "close">>
    ELSE <<"close">>

(***************************************************************************)
(* The inputs of a run: documents, directories and configurations.         *)
(***************************************************************************)
FlatDoc ==
    MappingDoc(<<Field("id", IntV("5")), Field("title", StrV("T")),
                 Field("slug", StrV("s"))>>)

NestAfterDoc ==
    MappingDoc(<<Field("id", IntV("5")),
                 Field("comments",
                       RowsV(<< <<Field("body", StrV("hi"))>>,
                                <<Field("body", StrV("yo")),
                                  Field("post_id", IntV("9"))>> >>))>>)

NestBeforeDoc ==
    MappingDoc(<<Field("comments", RowsV(<< <<Field("body", StrV("hi"))>> >>)),
                 Field("id", IntV("5")),
                 Field("title", DictV(<<"a", "1">>))>>)

CompoundDoc ==
    MappingDoc(<<Field("title", ListV(<<"1", "2">>)),
                 Field("comments",
                       RowsV(<< <<Field("body", ListV(<<"1">>))>>,
                                <<Field("junk", IntV("1"))>> >>))>>)

ListDoc ==
    SequenceDoc(<< <<Field("id", IntV("5"))>>,
                   <<Field("id", IntV("6")), Field("title", DictV(<<"a", "1">>)),
                     Field("slug", StrV("s"))>> >>)

EmptyDoc == MappingDoc(<<>>)

PostsFiles ==
    {Entry(<<>>, P1Yml, TRUE, d) :
        d \in {FlatDoc, NestAfterDoc, NestBeforeDoc, CompoundDoc, ListDoc,
               ScalarDoc, UnreadableDoc}}
    \cup {Entry(<<SubDir>>, P2Yaml, TRUE, d) : d \in {FlatDoc, NestAfterDoc}}
    \cup {Entry(<<>>, AllYml, TRUE, d) : d \in {ListDoc, FlatDoc, EmptyDoc}}
    \cup {Entry(<<>>, NotesTxt, TRUE, ScalarDoc)}

CommentsFiles ==
    {Entry(<<>>, P1Yml, TRUE,
           MappingDoc(<<Field("body", StrV("c")), Field("post_id", IntV("5"))>>)),
     Entry(<<>>, AllYml, TRUE, SequenceDoc(<< <<Field("body", StrV("c"))>> >>))}

PostsDirs ==
    {MissingDir} \cup {Dir(WithSubdirs(S)) : S \in SetsUpTo(PostsFiles, MaxFiles)}

CommentsDirs ==
    {MissingDir} \cup {Dir(S) : S \in SetsUpTo(CommentsFiles, MaxFiles)}

NoModelEntry == [has |-> FALSE, mapping |-> <<>>]
WithModel(mapping) == [has |-> TRUE, mapping |-> mapping]

PostsModels ==
    {NoModelEntry, WithModel(<<>>),
     WithModel(<<Rule("id", "FILE_NAME"), Rule("title", "FOLDER_NAME")>>),
     WithModel(<<Rule("slug", "FILE_NAME")>>),
     WithModel(<<Rule("id", "FILE_NAME"), Rule("title", "file_name")>>)}

CommentsModels ==
    {NoModelEntry, WithModel(<<>>), WithModel(<<Rule("body", "FILE_NAME")>>)}

\* FileAlchemy.validate: FILEALCHEMY_MODELS is not empty
Configs ==
    {[skip_no_model |-> s, map_nested |-> n, strict |-> c,
      models |-> [t \in Tables |-> IF t = "posts" THEN p ELSE m]] :
        s \in BOOLEAN, n \in BOOLEAN, c \in BOOLEAN,
        p \in PostsModels, m \in CommentsModels}
    \ {[skip_no_model |-> s, map_nested |-> n, strict |-> c,
        models |-> [t \in Tables |-> NoModelEntry]] :
        s \in BOOLEAN, n \in BOOLEAN, c \in BOOLEAN}

InitGen ==
    [remaining |-> {}, entry |-> NoEntry, values |-> <<>>, ki |-> 0, kwargs |-> {},
     sub |-> "", fk |-> <<>>, rows |-> <<>>]

Init ==
    /\ cfg \in Configs
    /\ fs \in {[t \in Tables |-> IF t = "posts" THEN p ELSE c] :
                    p \in PostsDirs, c \in CommentsDirs}
    /\ pc = "start"
    /\ ti = 1
    /\ gen = InitGen
    /\ session = <<>>
    /\ yielded = <<>>
    /\ chosen = [t \in Tables |-> "unset"]
    /\ processed = [t \in Tables |-> "pending"]
    /\ error = "none"

(***************************************************************************)
(* FileAlchemy.load_tables, run inside make_session.                       *)
(***************************************************************************)
Table == sorted_tables[ti]

InLoop == pc = "loop" /\ ti <= Len(sorted_tables)

\* an exception err leaves the with-block: make_session handles it
Raise(err) ==
    /\ pc' = "failed"
    /\ error' = err
    /\ session' = session \o SessionExit(err)

\* the consumer loop: session.add(record) for a record the generator yields
Yield(rec) ==
    /\ yielded' = Append(yielded, rec)
    /\ session' = Append(session, "add")

\* db.create_all() and entry into the with-block
Begin ==
    /\ pc = "start"
    /\ pc' = "loop"
    /\ UNCHANGED <<cfg, fs, ti, gen, session, yielded, chosen, processed, error>>

\* no model for the table and FILEALCHEMY_SKIP_NO_MODEL is set: continue
SkipTable ==
    /\ InLoop
    /\ ~model_for(Table).has
    /\ cfg.skip_no_model
    /\ processed' = [processed EXCEPT ![Table] = "skipped"]
    /\ ti' = ti + 1
    /\ UNCHANGED <<cfg, fs, pc, gen, session, yielded, chosen, error>>

\* no model for the table: LoadError
NoModel ==
    /\ InLoop
    /\ ~model_for(Table).has
    /\ ~cfg.skip_no_model
    /\ Raise("LoadError")
    /\ UNCHANGED <<cfg, fs, ti, gen, yielded, chosen, processed>>

\* loader_for returned None: LoadError
NoLoader ==
    /\ InLoop
    /\ model_for(Table).has
    /\ loader_for(fs[Table]) = "none"
    /\ chosen' = [chosen EXCEPT ![Table] = "none"]
    /\ Raise("LoadError")
    /\ UNCHANGED <<cfg, fs, ti, gen, yielded, processed>>

\* loader_for returned a loader: loader.extract_records(model) is iterated
StartExtract ==
    /\ InLoop
    /\ model_for(Table).has
    /\ loader_for(fs[Table]) # "none"
    /\ chosen' = [chosen EXCEPT ![Table] = loader_for(fs[Table])]
    /\ pc' = loader_for(fs[Table])
    /\ gen' = [InitGen EXCEPT !.remaining = Glob(fs[Table])]
    /\ UNCHANGED <<cfg, fs, ti, session, yielded, processed, error>>

(***************************************************************************)
(* YAMLSingleFileLoader.extract_records, advanced by the consumer loop.    *)
(***************************************************************************)
\* parse _all.yml; iterating a mapping yields its keys, and str has no get()
SingleParse ==
    /\ pc = "single"
    /\ LET doc == AllFile(fs[Table]).doc
       IN IF parse_yaml_file(doc) # "ok"
          THEN Raise(parse_yaml_file(doc)) /\ UNCHANGED gen
          ELSE IF doc.shape = "mapping" /\ doc.fields # <<>>
          THEN Raise("AttributeError") /\ UNCHANGED gen
          ELSE /\ pc' = "rows"
               /\ gen' = [gen EXCEPT !.entry = AllFile(fs[Table]), !.rows = doc.rows]
               /\ UNCHANGED <<session, error>>
    /\ UNCHANGED <<cfg, fs, ti, yielded, chosen, processed>>

\* one element of the sequence: yield model(**kwargs)
SingleYield ==
    /\ pc = "rows"
    /\ gen.rows # <<>>
    /\ LET kw == SingleKwargs(Table, Head(gen.rows))
       IN IF Construct(Table, kw) # "ok"
          THEN Raise(Construct(Table, kw)) /\ UNCHANGED <<gen, yielded>>
          ELSE /\ Yield(Record(Table, kw, Table, gen.entry, "row"))
               /\ gen' = [gen EXCEPT !.rows = Tail(gen.rows)]
               /\ UNCHANGED <<pc, error>>
    /\ UNCHANGED <<cfg, fs, ti, chosen, processed>>

(***************************************************************************)
(* YAMLDirectoryLoader.extract_records, advanced by the consumer loop.     *)
(* The order of glob('**/*') is the file system's: any remaining entry.    *)
(***************************************************************************)
\* an entry that is no regular file: continue
DirSkip ==
    /\ pc = "directory"
    /\ \E e \in gen.remaining :
        /\ ~e.isFile
        /\ gen' = [gen EXCEPT !.remaining = gen.remaining \ {e}]
    /\ UNCHANGED <<cfg, fs, pc, ti, session, yielded, chosen, processed, error>>

\* a regular file: parse it, then apply the column mapping rules
DirOpen ==
    /\ pc = "directory"
    /\ \E e \in gen.remaining :
        /\ e.isFile
        /\ LET mapped == ApplyColumnMap(model_for(Table).mapping, Table, e, {})
           IN IF parse_yaml_file(e.doc) # "ok"
              THEN Raise(parse_yaml_file(e.doc)) /\ UNCHANGED gen
              ELSE IF mapped.err # "ok"
              THEN Raise(mapped.err) /\ UNCHANGED gen
              ELSE IF e.doc.shape # "mapping"
              THEN Raise("AttributeError") /\ UNCHANGED gen
              ELSE /\ pc' = "keys"
                   /\ gen' = [remaining |-> gen.remaining \ {e}, entry |-> e,
                              values |-> e.doc.fields, ki |-> 1,
                              kwargs |-> mapped.kw, sub |-> "", fk |-> <<>>,
                              rows |-> <<>>]
                   /\ UNCHANGED <<session, error>>
    /\ UNCHANGED <<cfg, fs, ti, yielded, chosen, processed>>

\* faulty variant of KeysDone: the parent is yielded inside the loop over the
\* keys, after the first of them
KeysDoneAfterFirst(g) == g.ki > 1 \/ g.ki > Len(g.values)

\* the loop over values.items() has ended
KeysDone(g) == g.ki > Len(g.values)

\* one (k, value) of values.items()
DirKey ==
    /\ pc = "keys"
    /\ ~KeysDone(gen)
    /\ LET k == gen.values[gen.ki].key
           value == gen.values[gen.ki].val
           foreign == ForeignKwargs(ForeignKeys(k), Table, gen.kwargs)
       IN IF k \in Columns(Table)
          THEN /\ gen' = [gen EXCEPT !.kwargs = AssignColumn(gen.kwargs, k, value),
                                     !.ki = gen.ki + 1]
               /\ UNCHANGED <<pc, session, error>>
          ELSE IF ModelMap # {} /\ k \in Tables /\ value.kind = "list"
          THEN IF foreign.err # "ok"
               THEN Raise(foreign.err) /\ UNCHANGED gen
               ELSE IF value.items # <<>>
               THEN Raise("AttributeError") /\ UNCHANGED gen
               ELSE IF value.rows = <<>>
               THEN /\ gen' = [gen EXCEPT !.ki = gen.ki + 1]
                    /\ UNCHANGED <<pc, session, error>>
               ELSE /\ pc' = "children"
                    /\ gen' = [gen EXCEPT !.sub = k, !.fk = foreign.fk,
                                          !.rows = value.rows]
                    /\ UNCHANGED <<session, error>>
          ELSE /\ gen' = [gen EXCEPT !.ki = gen.ki + 1]
               /\ UNCHANGED <<pc, session, error>>
    /\ UNCHANGED <<cfg, fs, ti, yielded, chosen, processed>>

\* one element of a nested list: yield self.model_map[k][0](**sub_kwargs)
DirChild ==
    /\ pc = "children"
    /\ LET sub_kwargs == Update(AsDict(Head(gen.rows)), gen.fk)
           rest == Tail(gen.rows)
       IN IF gen.sub \notin ModelMap
          THEN Raise("KeyError") /\ UNCHANGED <<gen, yielded>>
          ELSE IF Construct(gen.sub, sub_kwargs) # "ok"
          THEN Raise(Construct(gen.sub, sub_kwargs)) /\ UNCHANGED <<gen, yielded>>
          ELSE /\ Yield(Record(gen.sub, sub_kwargs, Table, gen.entry, "child"))
               /\ gen' = [gen EXCEPT !.rows = rest,
                                     !.ki = IF rest = <<>> THEN gen.ki + 1 ELSE gen.ki]
               /\ pc' = IF rest = <<>> THEN "keys" ELSE "children"
               /\ UNCHANGED error
    /\ UNCHANGED <<cfg, fs, ti, chosen, processed>>

\* after the last key: yield model(**kwargs)
DirParent ==
    /\ pc = "keys"
    /\ KeysDone(gen)
    /\ IF Construct(Table, gen.kwargs) # "ok"
       THEN Raise(Construct(Table, gen.kwargs)) /\ UNCHANGED <<gen, yielded>>
       ELSE /\ Yield(Record(Table, gen.kwargs, Table, gen.entry, "parent"))
            /\ pc' = "directory"
            /\ UNCHANGED <<gen, error>>
    /\ UNCHANGED <<cfg, fs, ti, chosen, processed>>

(***************************************************************************)
(* The end of a table and of the run.                                      *)
(***************************************************************************)
Exhausted ==
    \/ pc = "rows" /\ gen.rows = <<>>
    \/ pc = "directory" /\ gen.remaining = {}

\* the records this table's loader handed to the session
Added(t) == {i \in 1..Len(yielded) : yielded[i].loader = t}

\* session.flush() succeeds: next table
Flush ==
    /\ Exhausted
    /\ session' = Append(session, "flush")
    /\ processed' = [processed EXCEPT ![Table] = "flushed"]
    /\ ti' = ti + 1
    /\ pc' = "loop"
    /\ UNCHANGED <<cfg, fs, gen, yielded, chosen, error>>

\* session.flush() raises IntegrityError, re-raised as LoadError
FlushConflict ==
    /\ Exhausted
    /\ Added(Table) # {}
    /\ pc' = "failed"
    /\ error' = "LoadError"
    /\ session' = Append(session, "flush") \o SessionExit("LoadError")
    /\ UNCHANGED <<cfg, fs, ti, gen, yielded, chosen, processed>>

\* the loop over sorted_tables ends: the with-block is left normally
Finish ==
    /\ pc = "loop"
    /\ ti > Len(sorted_tables)
    /\ pc' = "done"
    /\ session' = session \o SessionExit("none")
    /\ UNCHANGED <<cfg, fs, ti, gen, yielded, chosen, processed, error>>

Next ==
    \/ Begin
    \/ SkipTable
    \/ NoModel
    \/ NoLoader
    \/ StartExtract
    \/ SingleParse
    \/ SingleYield
    \/ DirSkip
    \/ DirOpen
    \/ DirKey
    \/ DirChild
    \/ DirParent
    \/ Flush
    \/ FlushConflict
    \/ Finish

Spec == Init /\ [][Next]_vars

(***************************************************************************)
(* Strategy selection alone: loader_for applied to one table directory.    *)
(***************************************************************************)
SelectEntries ==
    {Entry(dir, name, isFile, EmptyDoc) :
        dir \in {<<>>, <<SubDir>>},
        name \in {AllYml, P1Yml, P2Yaml, NotesTxt, MixedCase, NoDot, AllYaml, DotYml},
        isFile \in BOOLEAN}

SelectDirs ==
    {MissingDir} \cup {Dir(WithSubdirs(S)) : S \in SetsUpTo(SelectEntries, MaxEntries)}

InitSelect ==
    /\ cfg = [skip_no_model |-> FALSE, map_nested |-> FALSE, strict |-> TRUE,
              models |-> [t \in Tables |-> WithModel(<<>>)]]
    /\ fs \in {[t \in Tables |-> IF t = "posts" THEN d ELSE MissingDir] : d \in SelectDirs}
    /\ pc = "select"
    /\ ti = 1
    /\ gen = InitGen
    /\ session = <<>>
    /\ yielded = <<>>
    /\ chosen = [t \in Tables |-> "unset"]
    /\ processed = [t \in Tables |-> "pending"]
    /\ error = "none"

\* loader = loader_for(self.data_dir, table, ...)
Select ==
    /\ pc = "select"
    /\ pc' = "selected"
    /\ chosen' = [chosen EXCEPT ![Table] = loader_for(fs[Table])]
    /\ UNCHANGED <<cfg, fs, ti, gen, session, yielded, processed, error>>

NextSelect == Select

SpecSelect == InitSelect /\ [][NextSelect]_vars

(***************************************************************************)
(* Properties.                                                             *)
(***************************************************************************)
\* the entry of table t's directory at a path
EntryAt(t, path) == CHOOSE e \in fs[t].entries : PathOf(e) = path

\* two yielded records come from the same file
SameFile(i, j) ==
    yielded[i].loader = yielded[j].loader /\ yielded[i].path = yielded[j].path

\* the records the directory loader yielded
DirRecords == {i \in 1..Len(yielded) : yielded[i].role \in {"parent", "child"}}

\* a file name ends in .yml, .yaml, .YML or .YAML
Recognized(name) ==
    \/ /\ Len(name) >= 4
       /\ SubSeq(name, Len(name) - 3, Len(name))
            \in {<<".", "y", "m", "l">>, <<".", "Y", "M", "L">>}
    \/ /\ Len(name) >= 5
       /\ SubSeq(name, Len(name) - 4, Len(name))
            \in {<<".", "y", "a", "m", "l">>, <<".", "Y", "A", "M", "L">>}

\* C1: loader_for returns the single-file loader iff _all.yml is a regular
\* file directly under the table directory, whatever else is there; otherwise
\* the directory loader iff every regular file found recursively has a
\* recognized extension; otherwise nothing.
ThmC1 ==
    pc = "selected" =>
        LET E == IF fs[Table].exists THEN fs[Table].entries ELSE {}
            aggregate == \E e \in E : e.isFile /\ e.dir = <<>>
                                      /\ Concat(e.name) = "_all.yml"
            allYaml == \A e \in E : e.isFile => Recognized(e.name)
        IN /\ chosen[Table] = "single" <=> aggregate
           /\ chosen[Table] = "directory" <=> (~aggregate /\ allYaml)
           /\ chosen[Table] = "none" <=> (~aggregate /\ ~allYaml)

\* C1 happens: the single-file loader is selected although a file with an
\* unrecognized extension lies in a subdirectory
WitC1 ==
    /\ pc = "selected"
    /\ chosen[Table] = "single"
    /\ \E e \in fs[Table].entries : e.isFile /\ e.dir # <<>> /\ ~Recognized(e.name)

\* C2 as claimed: whenever load_tables fails, rollback was called on the
\* session before the error left it.
ClaimC2 == pc = "failed" => "rollback" \in Range(session)

\* C3: commit is called at most once, only when every table was skipped or had
\* its records added and flushed and no error occurred; after an error there
\* is no commit.
ThmC3 ==
    LET commits == {i \in 1..Len(session) : session[i] = "commit"}
    IN /\ Cardinality(commits) <= 1
       /\ error # "none" => commits = {}
       /\ \A i \in commits :
            /\ error = "none"
            /\ \A t \in Tables : processed[t] \in {"skipped", "flushed"}
            /\ Cardinality({j \in 1..i : session[j] = "add"}) = Len(yielded)
            /\ \A j \in 1..i : session[j] = "add" =>
                    \E k \in (j + 1)..(i - 1) : session[k] = "flush"

\* C3 happens: the run fails at the second table after the records of the
\* first were added and flushed
WitC3 ==
    /\ pc = "failed"
    /\ processed["posts"] = "flushed"
    /\ Added("posts") # {}
    /\ ti = 2

\* the foreign-key pairs of table sub that reference table t
References(sub, t) ==
    {p \in UNION {Range(ForeignKeys(sub)[c]) : c \in 1..Len(ForeignKeys(sub))} :
        p.reftable = t}

\* C4 as claimed: every child record's foreign-key column is set and equals
\* the value the parent record of the same file carries in the referenced
\* column.
ClaimC4 ==
    \A i, j \in DirRecords :
        (yielded[i].role = "child" /\ yielded[j].role = "parent" /\ SameFile(i, j)) =>
            \A p \in References(yielded[i].table, yielded[j].table) :
                /\ p.local \in Keys(yielded[i].kw)
                /\ p.refcol \in Keys(yielded[j].kw)
                /\ Get(yielded[i].kw, p.local) = Get(yielded[j].kw, p.refcol)

RECURSIVE ExpectedChildTables(_, _)
\* the tables of the elements of a document's embedded collections, in order
ExpectedChildTables(t, fields) ==
    IF fields = <<>> THEN <<>>
    ELSE LET f == Head(fields)
             nested == /\ f.key \notin Columns(t)
                       /\ f.key \in Tables
                       /\ cfg.map_nested
                       /\ f.val.kind = "list"
         IN (IF nested THEN [n \in 1..Len(f.val.rows) |-> f.key] ELSE <<>>)
            \o ExpectedChildTables(t, Tail(fields))

\* C5: the records of one file are contiguous, all child records of the
\* file's embedded collections come first and its parent record comes last,
\* and a directory that was read to its end gave one parent per regular file.
ThmC5 ==
    /\ \A i, j \in DirRecords :
        (i < j /\ SameFile(i, j)) =>
            /\ yielded[i].role = "child"
            /\ \A k \in i..j : SameFile(i, k)
    /\ \A j \in DirRecords :
        yielded[j].role = "parent" =>
            LET e == EntryAt(yielded[j].loader, yielded[j].path)
                expected == ExpectedChildTables(yielded[j].loader, e.doc.fields)
                n == Len(expected)
            IN /\ e.isFile
               /\ j > n
               /\ \A m \in 1..n :
                    /\ yielded[j - n + m - 1].role = "child"
                    /\ SameFile(j - n + m - 1, j)
                    /\ yielded[j - n + m - 1].table = expected[m]
               /\ j - n > 1 => ~SameFile(j - n - 1, j)
    /\ \A t \in Tables :
        (chosen[t] = "directory" /\ processed[t] = "flushed") =>
            \A e \in Glob(fs[t]) :
                e.isFile =>
                    Cardinality({j \in DirRecords :
                                    /\ yielded[j].role = "parent"
                                    /\ yielded[j].loader = t
                                    /\ yielded[j].path = PathOf(e)}) = 1

\* C5 happens: a parent record follows a child record of its file, after
\* the records of another file of the same directory
WitC5 ==
    \E a, b, c \in DirRecords :
        /\ a < b /\ b < c
        /\ yielded[b].role = "child" /\ yielded[c].role = "parent"
        /\ SameFile(b, c)
        /\ yielded[a].loader = yielded[c].loader
        /\ ~SameFile(a, c)

\* the recognized mapping rules configured for table t
Rules(t) ==
    {m \in Range(cfg.models[t].mapping) : m.rule \in {"FILE_NAME", "FOLDER_NAME"}}

\* the value a rule derives for a file: its stem or its parent directory's name
Derived(t, path, m) ==
    IF m.rule = "FILE_NAME" THEN StrV(Concat(Stem(path[2])))
    ELSE StrV(IF path[1] = <<>> THEN t ELSE Last(path[1]))

\* C6 as claimed: a parent record's value for a column with a mapping rule is
\* the derived value, whatever the document holds under that key.
ClaimC6 ==
    \A i \in DirRecords :
        yielded[i].role = "parent" =>
            \A m \in Rules(yielded[i].loader) :
                /\ m.col \in Keys(yielded[i].kw)
                /\ Get(yielded[i].kw, m.col) = Derived(yielded[i].loader, yielded[i].path, m)

\* C6 amended: the derived value is a default; when the document holds a value
\* under the key of a declared column, that value (serialized to a string when
\* it is a list or a mapping) is the parent record's value.
ThmC6 ==
    \A i \in DirRecords :
        yielded[i].role = "parent" =>
            LET t == yielded[i].loader
                doc == AsDict(EntryAt(t, yielded[i].path).doc.fields)
            IN \A m \in Rules(t) :
                /\ m.col \in Keys(yielded[i].kw)
                /\ IF m.col \in Keys(doc) /\ m.col \in Columns(t)
                   THEN IF IsCompound(Get(doc, m.col))
                        THEN /\ Get(yielded[i].kw, m.col).kind = "str"
                             /\ Get(yielded[i].kw, m.col) = JsonDumps(Get(doc, m.col))
                        ELSE Get(yielded[i].kw, m.col) = Get(doc, m.col)
                   ELSE Get(yielded[i].kw, m.col) = Derived(t, yielded[i].path, m)

\* C6 happens: a parent record carries the document's value for a column that
\* has a mapping rule
WitC6 ==
    \E i \in DirRecords :
        /\ yielded[i].role = "parent"
        /\ \E m \in Rules(yielded[i].loader) :
            LET doc == AsDict(EntryAt(yielded[i].loader, yielded[i].path).doc.fields)
            IN /\ m.col \in Keys(doc)
               /\ Get(yielded[i].kw, m.col) = Get(doc, m.col)
               /\ Get(yielded[i].kw, m.col)
                    # Derived(yielded[i].loader, yielded[i].path, m)

\* C7 as claimed: every record of either loader has every declared column of
\* its table as a key.
ClaimC7 ==
    \A i \in 1..Len(yielded) : Columns(yielded[i].table) \subseteq Keys(yielded[i].kw)

\* C7 amended: every record of the single-file loader has exactly the declared
\* columns of its table as keys, with the element's value where it has one
\* and None where it has not.
ThmC7 ==
    \A i \in 1..Len(yielded) :
        yielded[i].role = "row" =>
            LET t == yielded[i].table
                n == Cardinality({j \in 1..i : yielded[j].loader = t})
                row == AsDict(AllFile(fs[t]).doc.rows[n])
            IN /\ Keys(yielded[i].kw) = Columns(t)
               /\ \A c \in Columns(t) :
                    Get(yielded[i].kw, c)
                        = IF c \in Keys(row) THEN Get(row, c) ELSE NoneV

\* C7 happens: a record of the single-file loader has None for a column its
\* element does not mention
WitC7 ==
    \E i \in 1..Len(yielded) :
        /\ yielded[i].role = "row"
        /\ \E c \in Columns(yielded[i].table) :
            /\ c \in Keys(yielded[i].kw)
            /\ Get(yielded[i].kw, c) = NoneV

\* C8 as claimed: for a table without a data directory loader_for returns
\* nothing.
ClaimC8 ==
    \A t \in Tables : (chosen[t] # "unset" /\ ~fs[t].exists) => chosen[t] = "none"

\* C8 amended: for a table without a data directory loader_for returns the
\* directory loader, which yields no record; load_tables does not fail for
\* want of a loader.
ThmC8 ==
    \A t \in Tables :
        (chosen[t] # "unset" /\ ~fs[t].exists) =>
            /\ chosen[t] = "directory"
            /\ Added(t) = {}
            /\ ~(pc = "failed" /\ Table = t)

\* C8 happens: a table without a data directory is loaded to its end
WitC8 ==
    \E t \in Tables :
        /\ ~fs[t].exists
        /\ chosen[t] = "directory"
        /\ processed[t] = "flushed"

\* table t has a mapping rule that is neither FILE_NAME nor FOLDER_NAME
HasBadRule(t) ==
    \E m \in Range(cfg.models[t].mapping) : m.rule \notin {"FILE_NAME", "FOLDER_NAME"}

\* C9 as claimed: loading a table with an unrecognized mapping rule by the
\* directory loader (from a directory that holds a regular file) fails with a
\* LoadError before any record of the table is yielded.
ClaimC9 ==
    \A t \in Tables :
        (/\ HasBadRule(t)
         /\ chosen[t] = "directory"
         /\ \E e \in Glob(fs[t]) : e.isFile
         /\ processed[t] = "flushed" \/ pc = "failed") =>
            /\ pc = "failed"
            /\ error = "LoadError"
            /\ Added(t) = {}

\* C10 as claimed: a child record has only declared columns of the child table
\* as keys, has the columns of the child table's mapping rules set, and
\* carries no list or mapping value.
ClaimC10 ==
    \A i \in DirRecords :
        yielded[i].role = "child" =>
            /\ Keys(yielded[i].kw) \subseteq Columns(yielded[i].table)
            /\ \A m \in Rules(yielded[i].table) : m.col \in Keys(yielded[i].kw)
            /\ \A f \in yielded[i].kw : ~IsCompound(f.val)

====
